---- MODULE Spec2Model ----
(***************************************************************************)
(* The local (HNSW / JSON file) path of the paper note-taking and QA API:  *)
(* the POST /take-notes and POST /qa handlers, mainV2, qaOnPaperV2 and the *)
(* JSON storage files they read and write.  Every await of the handlers is *)
(* a point where another request may run; the code between two awaits is   *)
(* one atomic action, as on the single-threaded event loop.                *)
(* The Supabase path (main, qaOnPaper and the three tables) and the        *)
(* functions deletePages, saveNotesLocally and convertPdfToDocuments are    *)
(* modelled beside it.                                                     *)
(***************************************************************************)
EXTENDS Integers, Sequences, FiniteSets, TLC

VARIABLES
  dirs,      \* the per-paper directories that exist: records [top, base]
  files,     \* content of every storage file and temporary PDF, by path
  index,     \* vector_store/<base>: URL of the saved HNSW index, or NoUrl
  req,       \* every connection: idle, a request in flight, or its response
  supabase,  \* the Supabase tables: paper rows, QA rows, embedding chunks
  call       \* the last direct call of a storage or PDF function, with its result

vars == <<dirs, files, index, req, supabase, call>>

(***************************************************************************)
(* Bounds                                                                  *)
(***************************************************************************)
MaxReq == 2        \* connections served concurrently
MaxRecords == 3    \* records a storage file may hold before requests stop
MaxPages == 4      \* pages of a PDF handed to deletePages
MaxRows == 3       \* rows a Supabase table may hold before calls stop
MaxTemp == 2       \* temporary PDF files that may pile up in pdfs/

Req == 1..MaxReq

(***************************************************************************)
(* Inputs: URLs, notes, questions, answers                                 *)
(***************************************************************************)
MkUrl(scheme, host, stem, ext) ==
  [scheme |-> scheme, host |-> host, stem |-> stem, ext |-> ext]

NoUrl == MkUrl("", "", "", "")

\* two papers that share the file basename p.pdf
PaperUrls == {MkUrl("http", "a.org", "p", "pdf"), MkUrl("https", "b.org", "p", "pdf")}

\* rejected by the validation of mainV2: not a PDF, and a PDF on localhost
\* that is no file on the local disk
BadUrls == {MkUrl("http", "a.org", "p", "txt"), MkUrl("http", "localhost", "p", "pdf")}

Urls == PaperUrls \cup BadUrls

\* paths of PDFs on the local disk (fs.existsSync(paperUrl))
LocalPdfs == {}

Null == "null"
NoteVals == {"notesA", "notesB"}
Questions == {"q1", "q2"}
AnswerVals == {"ans1", "ans2"}
FollowupVals == {"fu1"}

\* path.basename(url)
Basename(u) == [stem |-> u.stem, ext |-> u.ext]

Basenames == {Basename(u) : u \in Urls}

(***************************************************************************)
(* The file system                                                         *)
(***************************************************************************)
Dir(top, b) == [top |-> top, base |-> b]

Path(top, b, name) == [top |-> top, base |-> b, name |-> name]

ParentDir(p) == Dir(p.top, p.base)

\* generated_notes/<basename>/data.json
NotesPath(u) == Path("generated_notes", Basename(u), "data.json")

\* local_storage/<basename>/data.json
StoredPaperPath(u) == Path("local_storage", Basename(u), "data.json")

\* local_storage/<basename>/qa_data.json
QaPath(u) == Path("local_storage", Basename(u), "qa_data.json")

\* vector_store/<basename>
VectorStoreDir(u) == Dir("vector_store", Basename(u))

\* generated_notes/notes.json, the file of saveNotesLocally
NotesJsonPath == Path("generated_notes", [stem |-> "", ext |-> ""], "notes.json")

PaperPaths == {NotesPath(u) : u \in Urls} \cup {StoredPaperPath(u) : u \in Urls}

QaPaths == {QaPath(u) : u \in Urls}

\* pdfs/<fileName>.pdf, the temporary file of convertPdfToDocuments; the
\* i-th name uuidv4 produces stands for itself
TempPath(i) == Path("pdfs", [stem |-> ToString(i), ext |-> "pdf"], "")

TempPaths == {TempPath(i) : i \in 1..MaxTemp}

Paths == PaperPaths \cup QaPaths \cup {NotesJsonPath} \cup TempPaths

Absent == [state |-> "absent", recs |-> <<>>]

\* a file that exists and holds the empty string
EmptyText == [state |-> "empty", recs |-> <<>>]

\* a file that holds JSON.stringify(recs)
Json(recs) == [state |-> "json", recs |-> recs]

\* a file that holds the bytes of a PDF
PdfFile == [state |-> "pdf", recs |-> <<>>]

existsSync(f, p) == f[p].state # "absent"

(***************************************************************************)
(* convertPdfToDocuments                                                   *)
(***************************************************************************)
\* the names uuidv4 has not produced yet
FreshTempNames(f) == {i \in 1..MaxTemp : ~existsSync(f, TempPath(i))}

\* const pdfPath = `pdfs/${fileName}.pdf` with a fresh fileName; the names
\* are interchangeable, so the lowest fresh one is taken
FreshTempPath(f) ==
  TempPath(CHOOSE i \in FreshTempNames(f) : \A j \in FreshTempNames(f) : i <= j)

\* how a call ends: all three awaits resolve, or writeFile, loadAndSplit or
\* unlink rejects
ConvertOutcomes == {"converted", "writeFile", "loadAndSplit", "unlink"}

\* the file is written and is still there when the call ends
LeavesFile(outcome) == outcome \in {"loadAndSplit", "unlink"}

\* convertPdfToDocuments: writeFile, loadAndSplit, unlink, and the catch that
\* throws "PDF to Document conversion failed" without removing the file.
\* Between its awaits the function touches only its own temporary file, so
\* the call is taken as one step.
ConvertPdfToDocuments(f, pdfPath, outcome) ==
  [threw |-> outcome # "converted",
   files |-> IF LeavesFile(outcome) THEN [f EXCEPT ![pdfPath] = PdfFile] ELSE f]

\* the call can be followed with this outcome: a file that stays needs a
\* name among the MaxTemp names
CanConvert(f, outcome) == LeavesFile(outcome) => FreshTempNames(f) # {}

\* the file system after the call
FilesAfterConvert(f, outcome) ==
  IF LeavesFile(outcome)
    THEN ConvertPdfToDocuments(f, FreshTempPath(f), outcome).files
    ELSE f

\* the paper object {[url]: {paper, name, url, notes, dateCreated}}
PaperObj(url, notes) == [key |-> url, notes |-> notes]

\* the QA object {question, answer, context, followupQuestions, dateCreated}
QaObj(question, answer, followups) ==
  [question |-> question, answer |-> answer, followupQuestions |-> followups]

\* arr.some(el => el.hasOwnProperty(url))
HasUrl(recs, url) == \E i \in 1..Len(recs) : recs[i].key = url

\* arr.find(el => el.hasOwnProperty(url))[url]
FindUrl(recs, url) ==
  recs[CHOOSE i \in 1..Len(recs) :
         /\ recs[i].key = url
         /\ \A j \in 1..(i - 1) : recs[j].key # url]

\* fs.writeFileSync(p, JSON.stringify(recs)): ENOENT when the directory is missing
WriteResult(f, ds, p, recs) ==
  IF ParentDir(p) \in ds
    THEN [threw |-> FALSE, files |-> [f EXCEPT ![p] = Json(recs)]]
    ELSE [threw |-> TRUE, files |-> f]

\* saveToLocalStorage without the copyHasUrl test: appends whenever the file
\* holds records
SaveToLocalStorageNoCheck(f, ds, storagePath, url, notes) ==
  IF ~existsSync(f, storagePath)
    THEN WriteResult(f, ds, storagePath, <<PaperObj(url, notes)>>)
    ELSE IF f[storagePath].state = "empty"
      THEN [threw |-> FALSE, files |-> f]
      ELSE WriteResult(f, ds, storagePath,
                       Append(f[storagePath].recs, PaperObj(url, notes)))

SaveToLocalStorage(f, ds, storagePath, url, notes) ==
  IF ~existsSync(f, storagePath)
    THEN WriteResult(f, ds, storagePath, <<PaperObj(url, notes)>>)
    ELSE IF f[storagePath].state = "empty"
      THEN [threw |-> FALSE, files |-> f]
      ELSE IF ~HasUrl(f[storagePath].recs, url)
        THEN WriteResult(f, ds, storagePath,
                         Append(f[storagePath].recs, PaperObj(url, notes)))
        ELSE [threw |-> FALSE, files |-> f]

\* HNSWDatabase.addPaper: creates local_storage/<basename>, then saves
AddPaper(f, ds, storagePath, url, notes) ==
  LET ds2 == ds \cup {Dir("local_storage", Basename(url))}
      sv == SaveToLocalStorage(f, ds2, storagePath, url, notes)
  IN  [threw |-> sv.threw, files |-> sv.files, dirs |-> ds2]

(***************************************************************************)
(* Connections: a request in flight, then the response sent for it         *)
(***************************************************************************)
\* pc "idle": nothing was asked yet.  pc "done": the response to the last
\* request, which stays until the next request arrives on the connection.
\* later, ingestedBefore and asked are history of the request: what had
\* happened when it arrived.  generated, failedAt, modelCalled and hit are
\* history of the call: what it did.
IdleReq ==
  [kind |-> "idle", pc |-> "idle", url |-> NoUrl, question |-> "",
   hasPages |-> FALSE, db |-> FALSE, docs |-> NoUrl, notes |-> Null,
   later |-> Null, ingestedBefore |-> FALSE, asked |-> FALSE,
   status |-> 0, isNull |-> TRUE, answer |-> Null, followups |-> Null,
   error |-> "", failedAt |-> "", modelCalled |-> FALSE, hit |-> FALSE,
   generated |-> Null]

Free(r) == req[r].pc \in {"idle", "done"}

\* the response to request rq; the locals of the call are gone
RespOf(rq, status, error) ==
  [rq EXCEPT !.pc = "done", !.status = status, !.error = error,
             !.hasPages = FALSE, !.db = FALSE]

\* res.status(500).send(error): the handler's catch
Failure500(rq, error) == RespOf(rq, 500, error)

\* res.status(200).send(null): mainV2 / qaOnPaperV2 caught an error at step `step`
Null200(rq, step, called) ==
  [RespOf(rq, 200, "") EXCEPT !.notes = Null, !.failedAt = step, !.modelCalled = called]

\* res.status(200).send(notes)
Notes200(rq, notes, called, hit) ==
  [RespOf(rq, 200, "") EXCEPT !.isNull = FALSE, !.notes = notes,
                              !.modelCalled = called, !.hit = hit]

\* the response is sent
Finish(r, response) == req' = [req EXCEPT ![r] = response]

(***************************************************************************)
(* mainV2 behind POST /take-notes                                          *)
(***************************************************************************)
\* new RegExp(`^(http|https)://(?!localhost|127\.0\.0\.1)(.*?\.pdf)$`).test(url)
IsPdfUrl(u) ==
  /\ u.scheme \in {"http", "https"}
  /\ u.host \notin {"localhost", "127.0.0.1"}
  /\ u.ext = "pdf"

IsLocalPdf(u) == u \in LocalPdfs

EndsWithPdf(u) == u.ext = "pdf"

\* the validation of main: the suffix alone
ValidPaperUrlSuffixOnly(u) == EndsWithPdf(u)

ValidPaperUrl(u) == ~((~IsPdfUrl(u) /\ ~IsLocalPdf(u)) \/ ~EndsWithPdf(u))

\* a stored-notes check that refuses a paper another request is working on
StoredCheckInFlightLock(f, p, url) ==
  IF \E r \in Req : /\ req[r].kind = "notes" /\ req[r].url = url
                    /\ req[r].pc \notin {"idle", "done"}
    THEN "throw"
  ELSE IF ~existsSync(f, p) THEN "miss"
  ELSE IF f[p].state = "empty" THEN "throw"
  ELSE IF HasUrl(f[p].recs, url) THEN "hit"
  ELSE "miss"

\* a stored-notes check that parses the file and looks no record up
StoredCheckNoLookup(f, p, url) ==
  IF ~existsSync(f, p) THEN "miss"
  ELSE IF f[p].state = "empty" THEN "throw"
  ELSE "miss"

\* the stored-notes check: "throw" (JSON.parse of an empty file), "hit" or "miss"
StoredCheck(f, p, url) ==
  IF ~existsSync(f, p) THEN "miss"
  ELSE IF f[p].state = "empty" THEN "throw"
  ELSE IF HasUrl(f[p].recs, url) THEN "hit"
  ELSE "miss"

\* the stage after the PDF buffer is loaded
AfterLoad(hasPages) == IF hasPages THEN "delete" ELSE "convert"

\* history: the notes generated by a mainV2 call for u that ran to completion
\* with every external call succeeding and whose response is still held by a
\* connection; Null when there is none
EarlierGenerated(u) ==
  LET done == {r \in Req : /\ req[r].pc = "done" /\ req[r].kind = "notes"
                           /\ req[r].url = u /\ req[r].generated # Null}
  IN  IF done = {} THEN Null ELSE req[CHOOSE r \in done : TRUE].generated

TakeNotesStart(r, u, hasPages) ==
  /\ Free(r)
  /\ Len(files[NotesPath(u)].recs) < MaxRecords
  /\ LET rq == [IdleReq EXCEPT !.kind = "notes", !.url = u,
                               !.hasPages = hasPages,
                               !.later = EarlierGenerated(u)]
         check == StoredCheck(files, NotesPath(u), u)
     IN  IF ~ValidPaperUrl(u)
           THEN Finish(r, Failure500(rq, "Invalid PDF or file path."))
         ELSE IF check = "throw"
           THEN Finish(r, Failure500(rq, "SyntaxError"))
         ELSE IF check = "hit"
           THEN Finish(r, Notes200(rq, FindUrl(files[NotesPath(u)].recs, u).notes,
                                   FALSE, TRUE))
         ELSE req' = [req EXCEPT ![r] =
                        [rq EXCEPT !.pc = IF IsPdfUrl(u) THEN "load"
                                          ELSE AfterLoad(hasPages)]]
  /\ UNCHANGED <<dirs, files, index, supabase, call>>

\* await loadPdfFromUrl resolves or rejects
LoadDone(r, ok) ==
  /\ req[r].kind = "notes" /\ req[r].pc = "load"
  /\ IF ok
       THEN req' = [req EXCEPT ![r].pc = AfterLoad(req[r].hasPages)]
       ELSE Finish(r, Null200(req[r], "load", FALSE))
  /\ UNCHANGED <<dirs, files, index, supabase, call>>

\* await deletePages resolves or rejects
DeleteDone(r, ok) ==
  /\ req[r].kind = "notes" /\ req[r].pc = "delete"
  /\ IF ok
       THEN req' = [req EXCEPT ![r].pc = "convert"]
       ELSE Finish(r, Null200(req[r], "delete", FALSE))
  /\ UNCHANGED <<dirs, files, index, supabase, call>>

\* await convertPdfToDocuments resolves or rejects
ConvertDone(r, ok) ==
  /\ req[r].kind = "notes" /\ req[r].pc = "convert"
  /\ \E outcome \in ConvertOutcomes :
       /\ ok <=> (outcome = "converted")
       /\ CanConvert(files, outcome)
       /\ files' = FilesAfterConvert(files, outcome)
  /\ IF ok
       THEN req' = [req EXCEPT ![r].pc = "embed"]
       ELSE Finish(r, Null200(req[r], "convert", FALSE))
  /\ UNCHANGED <<dirs, index, supabase, call>>

\* await HNSWDatabase.fromDocuments resolves with a database or with null;
\* then the vector-store directory is created when missing
EmbedDone(r, ok) ==
  /\ req[r].kind = "notes" /\ req[r].pc = "embed"
  /\ LET d == VectorStoreDir(req[r].url)
     IN  IF d \notin dirs
           THEN /\ dirs' = dirs \cup {d}
                /\ IF ok
                     THEN req' = [req EXCEPT ![r].pc = "save", ![r].db = TRUE]
                     ELSE Finish(r, Null200(req[r], "embed", FALSE))
           ELSE /\ req' = [req EXCEPT ![r].pc = "generate", ![r].db = ok]
                /\ UNCHANGED dirs
  /\ UNCHANGED <<files, index, supabase, call>>

\* await database.vectorStore.save resolves or rejects
SaveDone(r, ok) ==
  /\ req[r].kind = "notes" /\ req[r].pc = "save"
  /\ IF ok
       THEN /\ index' = [index EXCEPT ![Basename(req[r].url)] = req[r].url]
            /\ req' = [req EXCEPT ![r].pc = "generate"]
       ELSE /\ Finish(r, Null200(req[r], "save", FALSE))
            /\ UNCHANGED index
  /\ UNCHANGED <<dirs, files, supabase, call>>

\* await generateNotes resolves with the model's notes or rejects;
\* then database.addPaper and return
GenerateDone(r, ok, notes) ==
  /\ req[r].kind = "notes" /\ req[r].pc = "generate"
  /\ IF ~ok
       THEN /\ Finish(r, Null200(req[r], IF req[r].db THEN "generate" ELSE "embed", TRUE))
            /\ UNCHANGED <<dirs, files>>
       ELSE IF ~req[r].db
         THEN /\ Finish(r, Null200(req[r], "embed", TRUE))
              /\ UNCHANGED <<dirs, files>>
         ELSE LET ap == AddPaper(files, dirs, NotesPath(req[r].url), req[r].url, notes)
                  rq == [req[r] EXCEPT !.generated = notes]
              IN  /\ dirs' = ap.dirs
                  /\ files' = ap.files
                  /\ IF ap.threw
                       THEN Finish(r, Null200(rq, "persist", TRUE))
                       ELSE Finish(r, Notes200(rq, notes, TRUE, FALSE))
  /\ UNCHANGED <<index, supabase, call>>

(***************************************************************************)
(* qaOnPaperV2 behind POST /qa                                             *)
(***************************************************************************)
\* the records of a QA file that hold the question
HasQuestion(recs, question) == \E i \in 1..Len(recs) : recs[i].question = question

\* saveQAToLocalStorage that writes the new record alone, without the spread
\* of the records read
SaveQAOverwrite(f, ds, storagePath, question, answer, followups) ==
  IF ~existsSync(f, storagePath)
    THEN WriteResult(f, ds, storagePath, <<QaObj(question, answer, followups)>>)
    ELSE IF f[storagePath].state = "empty"
      THEN [threw |-> TRUE, files |-> f]
      ELSE WriteResult(f, ds, storagePath, <<QaObj(question, answer, followups)>>)

\* saveQAToLocalStorage with the duplicate test of saveToLocalStorage: a
\* question the file already holds is not appended
SaveQAIfNew(f, ds, storagePath, question, answer, followups) ==
  IF ~existsSync(f, storagePath)
    THEN WriteResult(f, ds, storagePath, <<QaObj(question, answer, followups)>>)
    ELSE IF f[storagePath].state = "empty"
      THEN [threw |-> TRUE, files |-> f]
      ELSE IF HasQuestion(f[storagePath].recs, question)
        THEN [threw |-> FALSE, files |-> f]
        ELSE WriteResult(f, ds, storagePath,
                         Append(f[storagePath].recs, QaObj(question, answer, followups)))

SaveQAToLocalStorage(f, ds, storagePath, question, answer, followups) ==
  IF ~existsSync(f, storagePath)
    THEN WriteResult(f, ds, storagePath, <<QaObj(question, answer, followups)>>)
    ELSE IF f[storagePath].state = "empty"
      THEN [threw |-> TRUE, files |-> f]
      ELSE WriteResult(f, ds, storagePath,
                       Append(f[storagePath].recs, QaObj(question, answer, followups)))

\* res.status(200).send(answerAndQuestions)
Qa200(rq, answer, followups) ==
  [RespOf(rq, 200, "") EXCEPT !.isNull = FALSE, !.answer = answer,
                              !.followups = followups, !.modelCalled = TRUE,
                              !.failedAt = IF answer = "Error" THEN "model" ELSE ""]

\* qaOnPaperV2 without the test of retrievedPaper?.notes: a paper without a
\* stored record goes on to the vector store
QaStartNoRecordCheck(r, u, question) ==
  /\ Free(r)
  /\ Len(files[QaPath(u)].recs) < MaxRecords
  /\ LET rq == [IdleReq EXCEPT !.kind = "qa", !.url = u, !.question = question,
                               !.ingestedBefore = HasUrl(files[NotesPath(u)].recs, u),
                               !.asked = HasQuestion(files[QaPath(u)].recs, question)]
         check == StoredCheck(files, StoredPaperPath(u), u)
     IN  IF VectorStoreDir(u) \notin dirs
           THEN Finish(r, Failure500(rq, "No vector store directory found"))
         ELSE IF check = "throw"
           THEN Finish(r, Failure500(rq, "SyntaxError"))
         ELSE req' = [req EXCEPT ![r] =
                   [rq EXCEPT !.pc = "loadStore",
                              !.notes = IF check = "hit"
                                          THEN FindUrl(files[StoredPaperPath(u)].recs, u).notes
                                          ELSE Null]]
  /\ UNCHANGED <<dirs, files, index, supabase, call>>

QaStart(r, u, question) ==
  /\ Free(r)
  /\ Len(files[QaPath(u)].recs) < MaxRecords
  /\ LET rq == [IdleReq EXCEPT !.kind = "qa", !.url = u, !.question = question,
                               !.ingestedBefore = HasUrl(files[NotesPath(u)].recs, u),
                               !.asked = HasQuestion(files[QaPath(u)].recs, question)]
         check == StoredCheck(files, StoredPaperPath(u), u)
     IN  IF VectorStoreDir(u) \notin dirs
           THEN Finish(r, Failure500(rq, "No vector store directory found"))
         ELSE IF check = "throw"
           THEN Finish(r, Failure500(rq, "SyntaxError"))
         ELSE IF \/ check = "miss"
                 \/ FindUrl(files[StoredPaperPath(u)].recs, u).notes = Null
           THEN Finish(r, Failure500(rq, "No text found"))
         ELSE req' = [req EXCEPT ![r] =
                   [rq EXCEPT !.pc = "loadStore",
                              !.notes = FindUrl(files[StoredPaperPath(u)].recs, u).notes]]
  /\ UNCHANGED <<dirs, files, index, supabase, call>>

\* await HNSWDatabase.fromExistingStore resolves with a database or with null
QaLoadStoreDone(r, ok) ==
  /\ req[r].kind = "qa" /\ req[r].pc = "loadStore"
  /\ IF ok /\ index[Basename(req[r].url)] # NoUrl
       THEN req' = [req EXCEPT ![r].pc = "retrieve", ![r].db = TRUE,
                               ![r].docs = index[Basename(req[r].url)]]
       ELSE Finish(r, Null200(req[r], "loadStore", FALSE))
  /\ UNCHANGED <<dirs, files, index, supabase, call>>

\* await vectorStoreRetriever.getRelevantDocuments resolves or rejects
QaRetrieveDone(r, ok) ==
  /\ req[r].kind = "qa" /\ req[r].pc = "retrieve"
  /\ IF ok
       THEN req' = [req EXCEPT ![r].pc = "model"]
       ELSE Finish(r, Null200(req[r], "retrieve", FALSE))
  /\ UNCHANGED <<dirs, files, index, supabase, call>>

\* qaOnPaperV2 without the test answer !== "Error": the failure marker is
\* saved like an answer
QaModelDoneSavesMarker(r, ok, answer, followups) ==
  /\ req[r].kind = "qa" /\ req[r].pc = "model"
  /\ LET a == IF ok THEN answer ELSE "Error"
         fu == IF ok THEN followups ELSE "Error"
         sv == SaveQAToLocalStorage(files, dirs, QaPath(req[r].url),
                                    req[r].question, a, fu)
     IN  /\ files' = sv.files
         /\ IF sv.threw
              THEN Finish(r, Null200(req[r], "persist", TRUE))
              ELSE Finish(r, Qa200(req[r], a, fu))
  /\ UNCHANGED <<dirs, index, supabase, call>>

\* await qaModelWithHNSW resolves with the model's answer or with the failure
\* marker; then the answer is saved and returned
QaModelDone(r, ok, answer, followups) ==
  /\ req[r].kind = "qa" /\ req[r].pc = "model"
  /\ IF ~ok
       THEN /\ Finish(r, Qa200(req[r], "Error", "Error"))
            /\ UNCHANGED files
       ELSE LET sv == SaveQAToLocalStorage(files, dirs, QaPath(req[r].url),
                                           req[r].question, answer, followups)
            IN  /\ files' = sv.files
                /\ IF sv.threw
                     THEN Finish(r, Null200(req[r], "persist", TRUE))
                     ELSE Finish(r, Qa200(req[r], answer, followups))
  /\ UNCHANGED <<dirs, index, supabase, call>>

(***************************************************************************)
(* The Supabase tables                                                     *)
(***************************************************************************)
\* a row of arxiv_papers
PaperRow(url, notes) == [url |-> url, notes |-> notes]

\* a row of arxiv_question_answering; the context column holds the passages
\* the answer was generated from, identified by the paper they belong to
QaRow(question, answer, followups, context) ==
  [question |-> question, answer |-> answer, followupQuestions |-> followups,
   context |-> context]

\* arxiv_papers and arxiv_question_answering in insertion order;
\* arxiv_embeddings as the set of metadata urls of its chunks
NoTables == [papers |-> <<>>, qa |-> <<>>, embeddings |-> {}]

\* the outcomes of an awaited supabase-js query: it resolves with data,
\* resolves with {data: null, error}, or rejects
QueryOutcomes == {"data", "error", "reject"}

\* .select().eq("arxiv_url", url): the rows of the result
SelectPapers(t, url) == {i \in 1..Len(t.papers) : t.papers[i].url = url}

\* a lookup that ignores the question: every row of the table is a result
SelectQaAnyQuestion(t, question) == {i \in 1..Len(t.qa) : TRUE}

\* .select().eq("question", question): the rows of the result before limit(1)
SelectQa(t, question) == {i \in 1..Len(t.qa) : t.qa[i].question = question}

\* the external calls of main and qaOnPaper that can fail
ExternalFailures ==
  {"connect", "existingQa", "getPaper", "load", "delete", "convert",
   "search", "generate", "model", "insert", "addDocuments", "saveQa"}

\* an external call failed at `step`; the first failure of a call is kept
Failed(rq, step) ==
  [rq EXCEPT !.failedAt = IF rq.failedAt = "" THEN step ELSE rq.failedAt]

\* main / qaOnPaper: catch (error) { throw new Error(`AI minus the braids`) }
Throws(rq, step) ==
  [RespOf(Failed(rq, step), 0, "AI minus the braids") EXCEPT
     !.notes = Null, !.answer = Null, !.followups = Null]

\* main returns notes
ReturnsNotes(rq, notes, hit) ==
  [RespOf(rq, 0, "") EXCEPT !.isNull = FALSE, !.notes = notes, !.hit = hit]

\* qaOnPaper returns an answer and follow-up questions generated from the
\* passages of the paper `context`
ReturnsAnswer(rq, answer, followups, context, hit) ==
  [RespOf(rq, 0, "") EXCEPT !.isNull = FALSE, !.answer = answer,
                            !.followups = followups, !.docs = context,
                            !.hit = hit]

(***************************************************************************)
(* main: the Supabase path of note taking                                  *)
(***************************************************************************)
\* main is called; it awaits SupabaseDatabase.fromExistingIndex
MainStart(r, u, hasPages) ==
  /\ Free(r)
  /\ Len(supabase.papers) < MaxRows
  /\ req' = [req EXCEPT ![r] =
               [IdleReq EXCEPT !.kind = "main", !.pc = "connect", !.url = u,
                               !.hasPages = hasPages]]
  /\ UNCHANGED <<dirs, files, index, supabase, call>>

\* await fromExistingIndex resolves or rejects; then the URL is validated
\* and getPaper is awaited
MainConnectDone(r, ok) ==
  /\ req[r].kind = "main" /\ req[r].pc = "connect"
  /\ IF ~ok
       THEN Finish(r, Throws(req[r], "connect"))
     ELSE IF ~EndsWithPdf(req[r].url)
       THEN Finish(r, Throws(req[r], "Invalid paper URL"))
     ELSE req' = [req EXCEPT ![r].pc = "getPaper"]
  /\ UNCHANGED <<dirs, files, index, supabase, call>>

\* await database.getPaper: the select rejects (getPaper re-throws), resolves
\* with an error (getPaper returns null), or resolves with the rows of the
\* URL, of which getPaper reads data[0].name
MainGetPaperDone(r, outcome) ==
  /\ req[r].kind = "main" /\ req[r].pc = "getPaper"
  /\ LET rows == SelectPapers(supabase, req[r].url)
         rq == [req[r] EXCEPT !.ingestedBefore = (rows # {})]
     IN  CASE outcome = "reject" -> Finish(r, Throws(rq, "getPaper"))
           [] outcome = "error" ->
                req' = [req EXCEPT ![r] =
                          [Failed(rq, "getPaper") EXCEPT !.pc = "load"]]
           [] outcome = "data" ->
                IF rows = {}
                  THEN Finish(r, Throws(rq, "TypeError"))
                  ELSE \E i \in rows :
                         Finish(r, ReturnsNotes(rq, supabase.papers[i].notes, TRUE))
  /\ UNCHANGED <<dirs, files, index, supabase, call>>

\* await loadPdfFromUrl resolves or rejects
MainLoadDone(r, ok) ==
  /\ req[r].kind = "main" /\ req[r].pc = "load"
  /\ IF ok
       THEN req' = [req EXCEPT ![r].pc = AfterLoad(req[r].hasPages)]
       ELSE Finish(r, Throws(req[r], "load"))
  /\ UNCHANGED <<dirs, files, index, supabase, call>>

\* await deletePages resolves or rejects
MainDeleteDone(r, ok) ==
  /\ req[r].kind = "main" /\ req[r].pc = "delete"
  /\ IF ok
       THEN req' = [req EXCEPT ![r].pc = "convert"]
       ELSE Finish(r, Throws(req[r], "delete"))
  /\ UNCHANGED <<dirs, files, index, supabase, call>>

\* await convertPdfToDocuments resolves or rejects
MainConvertDone(r, ok) ==
  /\ req[r].kind = "main" /\ req[r].pc = "convert"
  /\ \E outcome \in ConvertOutcomes :
       /\ ok <=> (outcome = "converted")
       /\ CanConvert(files, outcome)
       /\ files' = FilesAfterConvert(files, outcome)
  /\ IF ok
       THEN req' = [req EXCEPT ![r].pc = "generate"]
       ELSE Finish(r, Throws(req[r], "convert"))
  /\ UNCHANGED <<dirs, index, supabase, call>>

\* await generateNotes resolves with the model's notes or rejects
MainGenerateDone(r, ok, notes) ==
  /\ req[r].kind = "main" /\ req[r].pc = "generate"
  /\ IF ok
       THEN req' = [req EXCEPT ![r].pc = "persist", ![r].generated = notes,
                               ![r].modelCalled = TRUE]
       ELSE Finish(r, Throws([req[r] EXCEPT !.modelCalled = TRUE], "generate"))
  /\ UNCHANGED <<dirs, files, index, supabase, call>>

\* SupabaseDatabase.addPaper: the insert resolves with data (the row is
\* there), resolves with an error (no row; the result is not looked at), or
\* rejects (addPaper throws)
InsertPaper(t, outcome, url, notes) ==
  [threw |-> outcome = "reject",
   tables |-> IF outcome = "data"
                THEN [t EXCEPT !.papers = Append(t.papers, PaperRow(url, notes))]
                ELSE t]

\* await Promise.all([database.addPaper, vectorStore.addDocuments]): both
\* calls are started; main throws when one of them rejects
MainPersistDone(r, outcome, docsOk) ==
  /\ req[r].kind = "main" /\ req[r].pc = "persist"
  /\ LET ins == InsertPaper(supabase, outcome, req[r].url, req[r].generated)
         rq == IF outcome # "data" THEN Failed(req[r], "insert") ELSE req[r]
     IN  /\ supabase' =
              [ins.tables EXCEPT !.embeddings =
                 IF docsOk THEN @ \cup {req[r].url} ELSE @]
         /\ IF ins.threw THEN Finish(r, Throws(rq, "insert"))
            ELSE IF ~docsOk THEN Finish(r, Throws(rq, "addDocuments"))
            ELSE Finish(r, ReturnsNotes(rq, req[r].generated, FALSE))
  /\ UNCHANGED <<dirs, files, index, call>>

(***************************************************************************)
(* qaOnPaper: the Supabase path of question answering                      *)
(***************************************************************************)
\* qaOnPaper is called; it awaits SupabaseDatabase.fromExistingIndex
QaOnPaperStart(r, u, question) ==
  /\ Free(r)
  /\ Len(supabase.qa) < MaxRows
  /\ req' = [req EXCEPT ![r] =
               [IdleReq EXCEPT !.kind = "qaOnPaper", !.pc = "connect", !.url = u,
                               !.question = question]]
  /\ UNCHANGED <<dirs, files, index, supabase, call>>

\* await fromExistingIndex resolves or rejects; then rtrnExistingQa is awaited
QaConnectDone(r, ok) ==
  /\ req[r].kind = "qaOnPaper" /\ req[r].pc = "connect"
  /\ IF ok
       THEN req' = [req EXCEPT ![r].pc = "existingQa"]
       ELSE Finish(r, Throws(req[r], "connect"))
  /\ UNCHANGED <<dirs, files, index, supabase, call>>

\* await DATABASE.rtrnExistingQa: the select rejects, resolves with an error
\* (data is null: data?.[0] is undefined), or resolves with at most one of
\* the rows of the question, which is returned at once
ExistingQaDone(r, outcome) ==
  /\ req[r].kind = "qaOnPaper" /\ req[r].pc = "existingQa"
  /\ LET rows == SelectQa(supabase, req[r].question)
         rq == [req[r] EXCEPT !.asked = (rows # {})]
     IN  CASE outcome = "reject" -> Finish(r, Throws(rq, "existingQa"))
           [] outcome = "error" ->
                req' = [req EXCEPT ![r] =
                          [Failed(rq, "existingQa") EXCEPT !.pc = "getPaper"]]
           [] outcome = "data" ->
                IF rows = {}
                  THEN req' = [req EXCEPT ![r] = [rq EXCEPT !.pc = "getPaper"]]
                  ELSE \E i \in rows :
                         Finish(r, ReturnsAnswer(rq, supabase.qa[i].answer,
                                                 supabase.qa[i].followupQuestions,
                                                 supabase.qa[i].context, TRUE))
  /\ UNCHANGED <<dirs, files, index, supabase, call>>

\* await DATABASE.getPaper, as in main; without notes 'No notes found' is thrown
QaGetPaperDone(r, outcome) ==
  /\ req[r].kind = "qaOnPaper" /\ req[r].pc = "getPaper"
  /\ LET rows == SelectPapers(supabase, req[r].url)
         rq == [req[r] EXCEPT !.ingestedBefore = (rows # {})]
     IN  CASE outcome = "reject" -> Finish(r, Throws(rq, "getPaper"))
           [] outcome = "error" ->
                Finish(r, Throws(Failed(rq, "getPaper"), "No notes found"))
           [] outcome = "data" ->
                IF rows = {}
                  THEN Finish(r, Throws(rq, "TypeError"))
                  ELSE \E i \in rows :
                         req' = [req EXCEPT ![r] =
                                   [rq EXCEPT !.pc = "search",
                                              !.notes = supabase.papers[i].notes]]
  /\ UNCHANGED <<dirs, files, index, supabase, call>>

\* await vectorStore.similaritySearch(question, 10, {url: paperUrl}): the
\* chunks whose metadata url is paperUrl, if there are any
SearchDone(r, ok) ==
  /\ req[r].kind = "qaOnPaper" /\ req[r].pc = "search"
  /\ IF ok
       THEN req' = [req EXCEPT ![r].pc = "model",
                               ![r].docs = IF req[r].url \in supabase.embeddings
                                             THEN req[r].url ELSE NoUrl]
       ELSE Finish(r, Throws(req[r], "search"))
  /\ UNCHANGED <<dirs, files, index, supabase, call>>

\* await qaModel resolves with the model's answer or rejects
QaOnPaperModelDone(r, ok, answer, followups) ==
  /\ req[r].kind = "qaOnPaper" /\ req[r].pc = "model"
  /\ IF ok
       THEN req' = [req EXCEPT ![r].pc = "saveQa", ![r].answer = answer,
                               ![r].followups = followups,
                               ![r].modelCalled = TRUE]
       ELSE Finish(r, Throws([req[r] EXCEPT !.modelCalled = TRUE], "model"))
  /\ UNCHANGED <<dirs, files, index, supabase, call>>

\* await Promise.all of DATABASE.saveQa: the insert resolves with data,
\* resolves with an error (not looked at) or rejects; then the answer of the
\* model, generated from the notes and passages of paperUrl, is returned
SaveQaDone(r, outcome) ==
  /\ req[r].kind = "qaOnPaper" /\ req[r].pc = "saveQa"
  /\ supabase' =
       IF outcome = "data"
         THEN [supabase EXCEPT !.qa =
                 Append(@, QaRow(req[r].question, req[r].answer,
                                 req[r].followups, req[r].url))]
         ELSE supabase
  /\ CASE outcome = "reject" -> Finish(r, Throws(req[r], "saveQa"))
       [] outcome = "error" ->
            Finish(r, ReturnsAnswer(Failed(req[r], "saveQa"), req[r].answer,
                                    req[r].followups, req[r].url, FALSE))
       [] outcome = "data" ->
            Finish(r, ReturnsAnswer(req[r], req[r].answer, req[r].followups,
                                    req[r].url, FALSE))
  /\ UNCHANGED <<dirs, files, index, call>>

(***************************************************************************)
(* deletePages and saveNotesLocally, called directly                       *)
(***************************************************************************)
\* no function was called yet
NoCall ==
  [fn |-> "", path |-> Path("", [stem |-> "", ext |-> ""], ""), url |-> NoUrl,
   pages |-> <<>>, toDelete |-> <<>>, out |-> <<>>, threw |-> FALSE]

\* a PDF document of n pages; a page is known by its original page number
Pdf(n) == [i \in 1..n |-> i]

\* pdfDoc.removePage(idx), idx counted from 0; a RangeError outside the document
RemovePage(doc, idx) ==
  IF idx < 0 \/ idx >= Len(doc)
    THEN [threw |-> TRUE, doc |-> doc]
    ELSE [threw |-> FALSE,
          doc |-> SubSeq(doc, 1, idx) \o SubSeq(doc, idx + 2, Len(doc))]

\* the loop without numToOffsetBy += 1: every page number is lowered by one
RECURSIVE RemovePagesFixedOffset(_, _, _)
RemovePagesFixedOffset(doc, pagesToDelete, numToOffsetBy) ==
  IF pagesToDelete = <<>>
    THEN [threw |-> FALSE, doc |-> doc]
    ELSE LET rm == RemovePage(doc, Head(pagesToDelete) - numToOffsetBy)
         IN  IF rm.threw
               THEN rm
               ELSE RemovePagesFixedOffset(rm.doc, Tail(pagesToDelete), numToOffsetBy)

\* the loop of deletePages: for (const pageNumber of pagesToDelete)
\*   { pdfDoc.removePage(pageNumber - numToOffsetBy); numToOffsetBy += 1 }
RECURSIVE RemovePages(_, _, _)
RemovePages(doc, pagesToDelete, numToOffsetBy) ==
  IF pagesToDelete = <<>>
    THEN [threw |-> FALSE, doc |-> doc]
    ELSE LET rm == RemovePage(doc, Head(pagesToDelete) - numToOffsetBy)
         IN  IF rm.threw
               THEN rm
               ELSE RemovePages(rm.doc, Tail(pagesToDelete), numToOffsetBy + 1)

\* deletePages(pdf, pagesToDelete): the saved document, or
\* 'Failed to delete pages' thrown
DeletePages(pdf, pagesToDelete) == RemovePages(pdf, pagesToDelete, 1)

\* the lists of distinct page numbers of a document of n pages, in any order
PageLists(n) ==
  UNION {{l \in [1..k -> 1..n] : \A i, j \in 1..k : l[i] = l[j] => i = j} : k \in 0..n}

\* convertPdfToDocuments(pdf) called on its own
CallConvertPdfToDocuments(outcome) ==
  /\ FreshTempNames(files) # {}
  /\ LET pdfPath == FreshTempPath(files)
         res == ConvertPdfToDocuments(files, pdfPath, outcome)
     IN  /\ files' = res.files
         /\ call' = [NoCall EXCEPT !.fn = "convertPdfToDocuments",
                                   !.path = pdfPath, !.threw = res.threw]
  /\ UNCHANGED <<dirs, index, req, supabase>>

CallDeletePages(n, pagesToDelete) ==
  /\ LET res == DeletePages(Pdf(n), pagesToDelete)
     IN  call' = [NoCall EXCEPT !.fn = "deletePages", !.pages = Pdf(n),
                                !.toDelete = pagesToDelete,
                                !.out = IF res.threw THEN <<>> ELSE res.doc,
                                !.threw = res.threw]
  /\ UNCHANGED <<dirs, files, index, req, supabase>>

\* an entry of the object in notes.json: {[paperUrl]: notes}
NotesEntry(url, notes) == [key |-> url, notes |-> notes]

\* saveNotesLocally(paperUrl, notes): nothing without the file; the entry
\* alone into an empty file; nothing when the URL is a key of the object
\* read; otherwise notesObj, which holds the new entry alone, is written
SaveNotesLocally(f, paperUrl, notes) ==
  IF ~existsSync(f, NotesJsonPath)
    THEN f
  ELSE IF f[NotesJsonPath].state = "empty"
    THEN [f EXCEPT ![NotesJsonPath] = Json(<<NotesEntry(paperUrl, notes)>>)]
  ELSE IF HasUrl(f[NotesJsonPath].recs, paperUrl)
    THEN f
  ELSE [f EXCEPT ![NotesJsonPath] = Json(<<NotesEntry(paperUrl, notes)>>)]

CallSaveNotesLocally(paperUrl, notes) ==
  /\ files' = SaveNotesLocally(files, paperUrl, notes)
  /\ call' = [NoCall EXCEPT !.fn = "saveNotesLocally", !.path = NotesJsonPath,
                            !.url = paperUrl]
  /\ UNCHANGED <<dirs, index, req, supabase>>

(***************************************************************************)
(* Initial file systems and the specifications                             *)
(***************************************************************************)
NoFiles == [p \in Paths |-> Absent]

NoIndex == [b \in Basenames |-> NoUrl]

PaperDirs(top) == {Dir(top, Basename(u)) : u \in PaperUrls}

\* an installation where local_storage/<basename>/data.json holds the record
\* of paper u and vector_store/<basename> holds its index
Installed(u, notes) ==
  [dirs |-> PaperDirs("generated_notes") \cup PaperDirs("local_storage")
              \cup PaperDirs("vector_store"),
   files |-> [NoFiles EXCEPT ![StoredPaperPath(u)] = Json(<<PaperObj(u, notes)>>)],
   index |-> [NoIndex EXCEPT ![Basename(u)] = u]]

\* only the top-level directories exist
FreshFileSystem == [dirs |-> {}, files |-> NoFiles, index |-> NoIndex]

\* the directories generated_notes/<basename> were created by hand
PreparedFileSystem ==
  [dirs |-> PaperDirs("generated_notes"), files |-> NoFiles, index |-> NoIndex]

\* an installation where local_storage/<basename>/data.json holds the records
\* of all papers and nothing was embedded yet
InstalledRecords ==
  [dirs |-> PaperDirs("generated_notes") \cup PaperDirs("local_storage"),
   files |-> [NoFiles EXCEPT
                ![Path("local_storage", [stem |-> "p", ext |-> "pdf"], "data.json")] =
                  Json(<<PaperObj(MkUrl("http", "a.org", "p", "pdf"), "notesA"),
                         PaperObj(MkUrl("https", "b.org", "p", "pdf"), "notesB")>>)],
   index |-> NoIndex]

InitialFileSystems ==
  {FreshFileSystem, PreparedFileSystem, InstalledRecords}
    \cup {Installed(u, "notesA") : u \in PaperUrls}

InitFrom(fileSystems) ==
  /\ \E fs \in fileSystems :
       /\ dirs = fs.dirs
       /\ files = fs.files
       /\ index = fs.index
  /\ req = [r \in Req |-> IdleReq]
  /\ supabase = NoTables
  /\ call = NoCall

Init == InitFrom(InitialFileSystems)

\* the steps of take-notes requests on the connections C
TakeNotesSteps(C) ==
  \/ \E r \in C, u \in Urls, hasPages \in BOOLEAN : TakeNotesStart(r, u, hasPages)
  \/ \E r \in C, ok \in BOOLEAN : LoadDone(r, ok)
  \/ \E r \in C, ok \in BOOLEAN : DeleteDone(r, ok)
  \/ \E r \in C, ok \in BOOLEAN : ConvertDone(r, ok)
  \/ \E r \in C, ok \in BOOLEAN : EmbedDone(r, ok)
  \/ \E r \in C, ok \in BOOLEAN : SaveDone(r, ok)
  \/ \E r \in C, ok \in BOOLEAN, notes \in NoteVals : GenerateDone(r, ok, notes)

\* the steps of QA requests on the connections C
QaSteps(C) ==
  \/ \E r \in C, u \in Urls, question \in Questions : QaStart(r, u, question)
  \/ \E r \in C, ok \in BOOLEAN : QaLoadStoreDone(r, ok)
  \/ \E r \in C, ok \in BOOLEAN : QaRetrieveDone(r, ok)
  \/ \E r \in C, ok \in BOOLEAN, answer \in AnswerVals, followups \in FollowupVals :
       QaModelDone(r, ok, answer, followups)

Next == TakeNotesSteps(Req) \/ QaSteps(Req)

\* the server: both endpoints, MaxReq connections.  Every behaviour of the
\* three specifications below is a behaviour of Spec.
Spec == Init /\ [][Next]_vars

\* only take-notes requests arrive, on MaxReq connections
NotesInit == InitFrom({FreshFileSystem, PreparedFileSystem})

NotesNext == TakeNotesSteps(Req)

SpecNotes == NotesInit /\ [][NotesNext]_vars

\* only QA requests arrive, on MaxReq connections
QaInit == InitFrom({Installed(u, "notesA") : u \in PaperUrls})

QaNext == QaSteps(Req)

SpecQa == QaInit /\ [][QaNext]_vars

\* both endpoints, one request at a time
SequentialNext == TakeNotesSteps({1}) \/ QaSteps({1})

SpecSequential == Init /\ [][SequentialNext]_vars

\* the steps of main calls on the connections C
MainSteps(C) ==
  \/ \E r \in C, u \in Urls, hasPages \in BOOLEAN : MainStart(r, u, hasPages)
  \/ \E r \in C, ok \in BOOLEAN : MainConnectDone(r, ok)
  \/ \E r \in C, outcome \in QueryOutcomes : MainGetPaperDone(r, outcome)
  \/ \E r \in C, ok \in BOOLEAN : MainLoadDone(r, ok)
  \/ \E r \in C, ok \in BOOLEAN : MainDeleteDone(r, ok)
  \/ \E r \in C, ok \in BOOLEAN : MainConvertDone(r, ok)
  \/ \E r \in C, ok \in BOOLEAN, notes \in NoteVals : MainGenerateDone(r, ok, notes)
  \/ \E r \in C, outcome \in QueryOutcomes, docsOk \in BOOLEAN :
       MainPersistDone(r, outcome, docsOk)

\* the steps of qaOnPaper calls on the connections C
QaOnPaperSteps(C) ==
  \/ \E r \in C, u \in PaperUrls, question \in Questions : QaOnPaperStart(r, u, question)
  \/ \E r \in C, ok \in BOOLEAN : QaConnectDone(r, ok)
  \/ \E r \in C, outcome \in QueryOutcomes : ExistingQaDone(r, outcome)
  \/ \E r \in C, outcome \in QueryOutcomes : QaGetPaperDone(r, outcome)
  \/ \E r \in C, ok \in BOOLEAN : SearchDone(r, ok)
  \/ \E r \in C, ok \in BOOLEAN, answer \in AnswerVals, followups \in FollowupVals :
       QaOnPaperModelDone(r, ok, answer, followups)
  \/ \E r \in C, outcome \in QueryOutcomes : SaveQaDone(r, outcome)

\* the Supabase path of note taking: calls of main, one at a time, on empty
\* tables
SupabaseNext == MainSteps({1})

SupabaseInit == InitFrom({FreshFileSystem})

SpecSupabase == SupabaseInit /\ [][SupabaseNext]_vars

\* tables in which both papers were ingested and no question was asked yet
InstalledTables ==
  [papers |-> <<PaperRow(MkUrl("http", "a.org", "p", "pdf"), "notesA"),
                PaperRow(MkUrl("https", "b.org", "p", "pdf"), "notesB")>>,
   qa |-> <<>>,
   embeddings |-> PaperUrls]

\* the Supabase path of question answering: calls of qaOnPaper, one at a
\* time, about ingested papers
SupabaseQaInit ==
  /\ dirs = FreshFileSystem.dirs
  /\ files = FreshFileSystem.files
  /\ index = FreshFileSystem.index
  /\ req = [r \in Req |-> IdleReq]
  /\ supabase = InstalledTables
  /\ call = NoCall

SupabaseQaNext == QaOnPaperSteps({1})

SpecSupabaseQa == SupabaseQaInit /\ [][SupabaseQaNext]_vars

(***************************************************************************)
(* The two save functions applied directly to a storage file               *)
(***************************************************************************)
\* saveToLocalStorage(storagePath, docs, url, name, notes)
CallSaveToLocalStorage(storagePath, url, notes) ==
  /\ Len(files[storagePath].recs) < MaxRecords
  /\ LET sv == SaveToLocalStorage(files, dirs, storagePath, url, notes)
     IN  /\ files' = sv.files
         /\ call' = [NoCall EXCEPT !.fn = "saveToLocalStorage",
                                   !.path = storagePath, !.url = url,
                                   !.threw = sv.threw]
  /\ UNCHANGED <<dirs, index, req, supabase>>

\* saveQAToLocalStorage({storagePath, question, answer, context, followupQuestions})
CallSaveQAToLocalStorage(storagePath, question, answer, followups) ==
  /\ Len(files[storagePath].recs) < MaxRecords
  /\ LET sv == SaveQAToLocalStorage(files, dirs, storagePath,
                                    question, answer, followups)
     IN  /\ files' = sv.files
         /\ call' = [NoCall EXCEPT !.fn = "saveQAToLocalStorage",
                                   !.path = storagePath, !.threw = sv.threw]
  /\ UNCHANGED <<dirs, index, req, supabase>>

\* the files the functions are applied to: absent, empty, or what earlier
\* calls wrote
StorePaths ==
  {NotesPath(u) : u \in PaperUrls} \cup {QaPath(u) : u \in PaperUrls}

StoreInit ==
  /\ dirs = PaperDirs("generated_notes") \cup PaperDirs("local_storage")
  /\ files \in [Paths -> {Absent, EmptyText}]
  /\ \A p \in Paths \ StorePaths : files[p] = Absent
  /\ index = NoIndex
  /\ req = [r \in Req |-> IdleReq]
  /\ supabase = NoTables
  /\ call = NoCall

StoreNext ==
  \/ \E u \in PaperUrls, notes \in NoteVals :
       CallSaveToLocalStorage(NotesPath(u), u, notes)
  \/ \E u \in PaperUrls, question \in Questions, answer \in AnswerVals,
        followups \in FollowupVals :
       CallSaveQAToLocalStorage(QaPath(u), question, answer, followups)

SpecStore == StoreInit /\ [][StoreNext]_vars

(***************************************************************************)
(* deletePages, saveNotesLocally and convertPdfToDocuments applied directly *)
(***************************************************************************)
\* notes.json is missing, or was created empty
FunctionsInit ==
  InitFrom({[FreshFileSystem EXCEPT !.files[NotesJsonPath] = c] :
              c \in {Absent, EmptyText}})

FunctionsNext ==
  \/ \E n \in 1..MaxPages : \E pagesToDelete \in PageLists(n) :
       CallDeletePages(n, pagesToDelete)
  \/ \E paperUrl \in Urls, notes \in NoteVals : CallSaveNotesLocally(paperUrl, notes)
  \/ \E outcome \in ConvertOutcomes : CallConvertPdfToDocuments(outcome)

SpecFunctions == FunctionsInit /\ [][FunctionsNext]_vars

(***************************************************************************)
(* Properties                                                              *)
(***************************************************************************)
Done(r, kind) == req[r].pc = "done" /\ req[r].kind = kind

\* no two records of the sequence have the same key
UniqueKeys(recs) ==
  \A i, j \in 1..Len(recs) : recs[i].key = recs[j].key => i = j

\* no two records of the sequence have the same question
UniqueQuestions(recs) ==
  \A i, j \in 1..Len(recs) : recs[i].question = recs[j].question => i = j

\* C1: after any interleaving of take-notes requests, every paper storage
\* file holds at most one paper record per source URL.
C1_OneRecordPerUrl == \A p \in PaperPaths : UniqueKeys(files[p].recs)

\* two requests for the same paper both generated notes and both called
\* addPaper, and the file they share with another paper holds two records
C1_Witness ==
  \E r1, r2 \in Req, u \in PaperUrls :
    /\ r1 # r2
    /\ Done(r1, "notes") /\ req[r1].url = u /\ req[r1].generated # Null
    /\ Done(r2, "notes") /\ req[r2].url = u /\ req[r2].generated # Null
    /\ ~req[r1].isNull /\ ~req[r2].isNull
    /\ HasUrl(files[NotesPath(u)].recs, u)
    /\ Len(files[NotesPath(u)].recs) = 2

\* C2: a take-notes request for a valid URL with no stored record, in which
\* loading, page deletion, conversion, embedding, index save and the model
\* call all succeed, is answered 200 with the notes the model produced, and
\* a paper record for the URL is persisted.
C2_FreshPaperIsProcessed ==
  \A r \in Req :
    (Done(r, "notes") /\ req[r].generated # Null)
      => /\ req[r].status = 200
         /\ ~req[r].isNull
         /\ req[r].notes = req[r].generated
         /\ HasUrl(files[NotesPath(req[r].url)].recs, req[r].url)

\* C3: a take-notes request for u that arrives after a call for u has run to
\* completion with every external call succeeding returns the notes of that
\* call and does not invoke the model.
C3_LaterCallReturnsSameNotes ==
  \A r \in Req :
    (Done(r, "notes") /\ req[r].later # Null)
      => /\ req[r].status = 200
         /\ ~req[r].isNull
         /\ req[r].notes = req[r].later
         /\ ~req[r].modelCalled

\* C4: a QA request for u that arrives after mainV2 has stored the paper
\* record of u fails neither with 'No vector store directory found' nor with
\* 'No text found'.
C4_AskAfterIngest ==
  \A r \in Req :
    (Done(r, "qa") /\ req[r].ingestedBefore)
      => req[r].error \notin {"No vector store directory found", "No text found"}

\* C5: every QA file holds at most one QA record per exact question text.
C5_OneRecordPerQuestion == \A p \in QaPaths : UniqueQuestions(files[p].recs)

\* C6: a QA request whose exact question is already recorded in the paper's
\* QA file does not query the model.
C6_AskedQuestionNotAskedAgain ==
  \A r \in Req : (Done(r, "qa") /\ req[r].asked) => ~req[r].modelCalled

\* C7: a call of saveToLocalStorage or saveQAToLocalStorage keeps every
\* record of the file, unchanged and in order, removes no file, and appends
\* at most one record.
C7_CreateOnceReadMany ==
  [][\A p \in Paths :
       /\ Len(files'[p].recs) <= Len(files[p].recs) + 1
       /\ Len(files'[p].recs) >= Len(files[p].recs)
       /\ SubSeq(files'[p].recs, 1, Len(files[p].recs)) = files[p].recs
       /\ existsSync(files, p) => existsSync(files', p)]_vars

\* both functions have appended to a file that already held a record
C7_Witness ==
  \E u \in PaperUrls :
    /\ Len(files[NotesPath(u)].recs) = 2
    /\ Len(files[QaPath(u)].recs) >= 2

\* C8: take-notes requests are not mutually excluded: a request for a paper
\* with no stored record enters the pipeline whatever the other connections
\* are doing, also while another request for the same URL is in flight.
C8_NotMutuallyExcluded ==
  [][\A r \in Req, u \in PaperUrls :
       ( /\ Free(r)
         /\ req'[r] # req[r]
         /\ req'[r].kind = "notes" /\ req'[r].url = u
         /\ files[NotesPath(u)].state # "empty"
         /\ \A i \in 1..Len(files[NotesPath(u)].recs) :
              files[NotesPath(u)].recs[i].key # u )
       => req'[r].pc = "load"]_vars

\* two requests for the same paper, which has no stored record, have both
\* passed the stored-notes check and are both waiting for the model
C8_Witness ==
  \E r1, r2 \in Req :
    /\ r1 # r2
    /\ req[r1].kind = "notes" /\ req[r1].pc = "generate"
    /\ req[r2].kind = "notes" /\ req[r2].pc = "generate"
    /\ req[r1].url = req[r2].url
    /\ ~HasUrl(files[NotesPath(req[r1].url)].recs, req[r1].url)

\* C9: every 200 response of POST /take-notes carries notes, and a request
\* in which a processing step failed is answered 500.
C9_TakeNotesFailureIs500 ==
  \A r \in Req :
    Done(r, "notes")
      => /\ req[r].status = 200 => (~req[r].isNull /\ req[r].notes \in NoteVals)
         /\ req[r].failedAt # "" => req[r].status = 500

\* C10: every 200 response of POST /qa carries an answer and follow-up
\* questions of the model, and a request in which retrieval or the model
\* call failed is answered 500.
C10_QaFailureIs500 ==
  \A r \in Req :
    Done(r, "qa")
      => /\ req[r].status = 200
              => /\ ~req[r].isNull
                 /\ req[r].answer \in AnswerVals
                 /\ req[r].followups \in FollowupVals
         /\ req[r].failedAt # "" => req[r].status = 500

\* C11: a call of main with a URL ending in .pdf, made when arxiv_papers
\* holds no row of the URL and in which no external call fails, returns the
\* notes the model generated, and afterwards the table holds a row of the
\* URL and the embeddings table holds its chunks.
C11_MainIngestsUnknownPaper ==
  \A r \in Req :
    ( /\ Done(r, "main")
      /\ EndsWithPdf(req[r].url)
      /\ ~req[r].ingestedBefore
      /\ req[r].failedAt \notin ExternalFailures )
      => /\ req[r].error = ""
         /\ ~req[r].isNull
         /\ req[r].notes \in NoteVals
         /\ req[r].notes = req[r].generated
         /\ SelectPapers(supabase, req[r].url) # {}
         /\ req[r].url \in supabase.embeddings

\* C12: a call of main in which the insert of the paper row failed throws,
\* and a call of main that returns freshly generated notes has left a row of
\* the URL in arxiv_papers.
C12_FailedInsertThrows ==
  \A r \in Req :
    Done(r, "main")
      => /\ req[r].failedAt = "insert" => (req[r].error # "" /\ req[r].isNull)
         /\ (~req[r].isNull /\ ~req[r].hit)
              => SelectPapers(supabase, req[r].url) # {}

\* C13: deletePages returns the document without the pages listed in
\* pagesToDelete and with every other page in its original order, for every
\* list of distinct page numbers of the document, in any order.
C13_DeletesListedPages ==
  call.fn = "deletePages"
    => /\ ~call.threw
       /\ call.out = SelectSeq(call.pages,
                               LAMBDA pg : \A i \in 1..Len(call.toDelete) :
                                             call.toDelete[i] # pg)

\* C14: after saveToLocalStorage has returned normally, the file at
\* storagePath holds a paper record keyed by url, whatever the file held
\* before.
C14_SavedPaperIsInFile ==
  (call.fn = "saveToLocalStorage" /\ ~call.threw)
    => HasUrl(files[call.path].recs, call.url)

\* C19: a call of saveNotesLocally keeps every entry that notes.json holds
\* for another paper URL.
C19_EarlierNotesPreserved ==
  [][call'.fn = "saveNotesLocally"
       => \A i \in 1..Len(files[NotesJsonPath].recs) :
            \E j \in 1..Len(files'[NotesJsonPath].recs) :
              files'[NotesJsonPath].recs[j] = files[NotesJsonPath].recs[i]]_vars

\* C15: a take-notes request for a URL of which generated_notes/<basename>/
\* data.json holds a record is answered at once, before any await, with the
\* notes of that record: there is no download, no temporary file, no
\* embedding or model call, and no directory, storage file or vector store
\* is written.
C15_StoredHitHasNoEffects ==
  [][\A r \in Req, u \in PaperUrls :
       ( /\ Free(r)
         /\ req'[r] # req[r]
         /\ req'[r].kind = "notes" /\ req'[r].url = u
         /\ files[NotesPath(u)].state = "json"
         /\ \E i \in 1..Len(files[NotesPath(u)].recs) :
              files[NotesPath(u)].recs[i].key = u )
       => /\ req'[r].pc = "done"
          /\ req'[r].status = 200
          /\ ~req'[r].isNull
          /\ \E i \in 1..Len(files[NotesPath(u)].recs) :
               /\ files[NotesPath(u)].recs[i].key = u
               /\ req'[r].notes = files[NotesPath(u)].recs[i].notes
          /\ ~req'[r].modelCalled
          /\ dirs' = dirs /\ files' = files /\ index' = index]_vars

\* a request was answered from the stored record, which an earlier request
\* for the same URL had written
C15_Witness ==
  \E r1, r2 \in Req :
    /\ r1 # r2
    /\ Done(r1, "notes") /\ req[r1].hit /\ req[r1].notes \in NoteVals
    /\ Done(r2, "notes") /\ req[r2].url = req[r1].url
    /\ req[r2].generated = req[r1].notes

C17_AnswerIsAboutAskedPaper ==
  \A r \in Req :
    (Done(r, "qaOnPaper") /\ ~req[r].isNull) => req[r].docs = req[r].url

\* C18: the passages a QA request retrieves for a paper that mainV2 has
\* ingested come from the chunks of that paper, also when another ingested
\* paper has the same file basename.
C18_RetrievalIsAboutAskedPaper ==
  \A r \in Req :
    (req[r].kind = "qa" /\ req[r].ingestedBefore /\ req[r].docs # NoUrl)
      => req[r].docs = req[r].url

\* C20: when vector_store/<basename> exists and no mainV2 call is between
\* creating it and saving into it, the directory holds a saved index.
C20_VectorStoreDirHoldsIndex ==
  \A u \in PaperUrls :
    ( /\ VectorStoreDir(u) \in dirs
      /\ \A r \in Req : ~( /\ req[r].kind = "notes" /\ req[r].pc = "save"
                           /\ Basename(req[r].url) = Basename(u) ) )
      => index[Basename(u)] # NoUrl

\* C21: under any interleaving of QA requests, no step removes or changes a
\* record of a QA file, and the step in which a request whose model call
\* succeeded finishes appends the record of that request to the QA file of
\* its paper: when all requests have finished, the file holds one record
\* for each of them.
C21_NoLostQaUpdate ==
  [][/\ \A p \in QaPaths :
          /\ Len(files'[p].recs) >= Len(files[p].recs)
          /\ SubSeq(files'[p].recs, 1, Len(files[p].recs)) = files[p].recs
     /\ \A r \in Req :
          ( /\ req[r].kind = "qa" /\ req[r].pc = "model"
            /\ req'[r].pc = "done"
            /\ req'[r].answer \in AnswerVals )
          => files'[QaPath(req[r].url)].recs =
               Append(files[QaPath(req[r].url)].recs,
                      QaObj(req[r].question, req'[r].answer, req'[r].followups))]_vars

\* two requests with the same question about the same paper overlapped
\* (neither found the question recorded when it arrived), the model
\* answered both, and the file holds the records of both
C21_Witness ==
  \E r1, r2 \in Req :
    /\ r1 # r2
    /\ Done(r1, "qa") /\ Done(r2, "qa")
    /\ req[r1].url = req[r2].url /\ req[r1].question = req[r2].question
    /\ ~req[r1].asked /\ ~req[r2].asked
    /\ req[r1].answer \in AnswerVals /\ req[r2].answer \in AnswerVals
    /\ req[r1].answer # req[r2].answer
    /\ Len(files[QaPath(req[r1].url)].recs) = 2
    /\ \E i, j \in 1..2 :
         /\ files[QaPath(req[r1].url)].recs[i].answer = req[r1].answer
         /\ files[QaPath(req[r1].url)].recs[j].answer = req[r2].answer

\* C22: a QA request in which the model chain failed is answered 200 with
\* the failure marker (answer "Error", follow-up questions "Error"), its
\* step leaves every storage file unchanged, and no QA file ever holds the
\* marker as a record.
C22_FailureMarkerNotPersisted ==
  [][/\ \A r \in Req :
          ( /\ req[r].kind = "qa" /\ req[r].pc = "model"
            /\ req'[r].failedAt = "model" )
          => /\ req'[r].pc = "done"
             /\ req'[r].status = 200
             /\ ~req'[r].isNull
             /\ req'[r].answer = "Error"
             /\ req'[r].followups = "Error"
             /\ files' = files
     /\ \A p \in QaPaths : \A i \in 1..Len(files'[p].recs) :
          files'[p].recs[i].answer # "Error"]_vars

\* the model chain failed for a request about a paper whose QA file holds
\* the record of an answered question
C22_Witness ==
  \E r \in Req :
    /\ Done(r, "qa") /\ req[r].failedAt = "model"
    /\ req[r].answer = "Error" /\ req[r].status = 200
    /\ Len(files[QaPath(req[r].url)].recs) >= 1

\* C23: a QA request for a paper whose vector-store directory is missing,
\* or whose record with notes is not in local_storage/<basename>/data.json,
\* is rejected at once with an error: the vector store is not loaded, the
\* model is not called, and no storage file or directory is written.
C23_QaRejectsBeforeEffects ==
  [][\A r \in Req, u \in Urls :
       ( /\ Free(r)
         /\ req'[r] # req[r]
         /\ req'[r].kind = "qa" /\ req'[r].url = u
         /\ \/ VectorStoreDir(u) \notin dirs
            \/ \A i \in 1..Len(files[StoredPaperPath(u)].recs) :
                 \/ files[StoredPaperPath(u)].recs[i].key # u
                 \/ files[StoredPaperPath(u)].recs[i].notes = Null )
       => /\ req'[r].pc = "done"
          /\ req'[r].status = 500
          /\ req'[r].error # ""
          /\ req'[r].isNull
          /\ ~req'[r].modelCalled
          /\ req'[r].docs = NoUrl
          /\ dirs' = dirs /\ files' = files /\ index' = index]_vars

\* one request was rejected for the missing directory and another one for
\* the missing record
C23_Witness ==
  \E r1, r2 \in Req :
    /\ Done(r1, "qa") /\ req[r1].error = "No vector store directory found"
    /\ Done(r2, "qa") /\ req[r2].error = "No text found"

\* C24: a take-notes request whose URL does not end in .pdf, or is neither
\* an http(s) URL outside localhost nor a file on the local disk, is
\* rejected at once with 'Invalid PDF or file path.': nothing is downloaded,
\* embedded or asked of the model, and no file or directory is created.
C24_InvalidUrlRejectedBeforeEffects ==
  [][\A r \in Req, u \in Urls :
       ( /\ Free(r)
         /\ req'[r] # req[r]
         /\ req'[r].kind = "notes" /\ req'[r].url = u
         /\ \/ u.ext # "pdf"
            \/ /\ ~( /\ u.scheme \in {"http", "https"}
                     /\ u.host \notin {"localhost", "127.0.0.1"} )
               /\ u \notin LocalPdfs )
       => /\ req'[r].pc = "done"
          /\ req'[r].status = 500
          /\ req'[r].error = "Invalid PDF or file path."
          /\ req'[r].isNull
          /\ ~req'[r].modelCalled
          /\ dirs' = dirs /\ files' = files /\ index' = index]_vars

\* a request for a URL that is no PDF and a request for a PDF on localhost
\* were both rejected, while the record of an ingested paper is stored
C24_Witness ==
  \E r1, r2 \in Req :
    /\ Done(r1, "notes") /\ req[r1].url.ext # "pdf"
    /\ req[r1].error = "Invalid PDF or file path."
    /\ Done(r2, "notes") /\ req[r2].url.host = "localhost"
    /\ req[r2].error = "Invalid PDF or file path."
    /\ \E u \in PaperUrls : HasUrl(files[NotesPath(u)].recs, u)

\* the list is strictly ascending
Ascending(l) == \A i \in 1..(Len(l) - 1) : l[i] < l[i + 1]

\* C25: for a strictly ascending list of page numbers of the document,
\* deletePages does not throw, the saved document holds exactly the pages
\* that are not listed, in their original order, and it has
\* pageCount - length(pagesToDelete) pages.
C25_AscendingListDeleted ==
  (call.fn = "deletePages" /\ Ascending(call.toDelete))
    => /\ ~call.threw
       /\ Len(call.out) = Len(call.pages) - Len(call.toDelete)
       /\ call.out = SelectSeq(call.pages,
                               LAMBDA pg : \A i \in 1..Len(call.toDelete) :
                                             call.toDelete[i] # pg)

\* deletePages was called with an ascending list of several pages that are
\* not adjacent, and pages remain between and after them
C25_Witness ==
  /\ call.fn = "deletePages" /\ ~call.threw
  /\ Ascending(call.toDelete)
  /\ Len(call.toDelete) >= 2
  /\ call.toDelete[2] > call.toDelete[1] + 1
  /\ call.toDelete[Len(call.toDelete)] < Len(call.pages)

\* C26: when convertPdfToDocuments has returned or thrown, the temporary
\* file pdfs/<fileName>.pdf it wrote does not exist any more.
C26_NoTemporaryFileLeft ==
  call.fn = "convertPdfToDocuments" => ~existsSync(files, call.path)

====
